---------------------------- MODULE Spec2Model ----------------------------
(***************************************************************************)
(* Dave-PMEA Ultra-Safe (src/server.py): the age-tier policy, the content  *)
(* guards, the text sanitizers, the two SQLite tables and the three        *)
(* request handlers (POST /age-verify, GET /memory, POST /chat).           *)
(*                                                                         *)
(* Text is a string, read as the sequence of its characters: Len, SubSeq   *)
(* and \o are those of Sequences.  The source file holds mis-decoded       *)
(* characters in some literals; each is written here as one ASCII          *)
(* stand-in of the same class for the regular expressions (a letter for a  *)
(* letter, a symbol for a symbol), so every length is the source's:        *)
(*   a-circumflex -> "a", euro -> "^", broken bar -> "|", trade mark -> "*",*)
(*   left double quote -> "~".                                             *)
(***************************************************************************)
EXTENDS Integers, Sequences, FiniteSets, TLC

VARIABLES users, memory_table, has_openai, last, inflight

vars == <<users, memory_table, has_openai, last, inflight>>

-----------------------------------------------------------------------------
(* Characters and the character classes of Python's re on str.             *)

At(t, i) == SubSeq(t, i, i)

Digits == {"0", "1", "2", "3", "4", "5", "6", "7", "8", "9"}

LowerLetters ==
    {"a", "b", "c", "d", "e", "f", "g", "h", "i", "j", "k", "l", "m",
     "n", "o", "p", "q", "r", "s", "t", "u", "v", "w", "x", "y", "z"}

UpperLetters ==
    {"A", "B", "C", "D", "E", "F", "G", "H", "I", "J", "K", "L", "M",
     "N", "O", "P", "Q", "R", "S", "T", "U", "V", "W", "X", "Y", "Z"}

Letters == LowerLetters \cup UpperLetters

\* \w
WordChars == Letters \cup Digits \cup {"_"}

\* \s, and what str.strip() removes
SpaceChars == {" ", "\t", "\n", "\r", "\f"}

IsWord(c) == c \in WordChars

IsSpace(c) == c \in SpaceChars

UpperAlphabet == "ABCDEFGHIJKLMNOPQRSTUVWXYZ"

LowerAlphabet == "abcdefghijklmnopqrstuvwxyz"

LowerChar(c) ==
    IF c \in UpperLetters
    THEN At(LowerAlphabet, CHOOSE k \in 1..26 : At(UpperAlphabet, k) = c)
    ELSE c

\* str.lower(), by halves so that the evaluation depth is logarithmic
RECURSIVE lower(_)
lower(t) ==
    IF Len(t) = 0 THEN ""
    ELSE IF Len(t) = 1 THEN LowerChar(t)
    ELSE LET h == Len(t) \div 2
         IN  lower(SubSeq(t, 1, h)) \o lower(SubSeq(t, h + 1, Len(t)))

\* k in low, for k a str
Contains(t, k) ==
    \E i \in 1..(Len(t) - Len(k) + 1) : SubSeq(t, i, i + Len(k) - 1) = k

\* t[:n]
Slice(t, n) == IF Len(t) <= n THEN t ELSE SubSeq(t, 1, n)

\* str.rstrip()
rstrip(t) ==
    IF \A i \in 1..Len(t) : IsSpace(At(t, i)) THEN ""
    ELSE LET k == CHOOSE k \in 0..(Len(t) - 1) :
                      /\ ~IsSpace(At(t, Len(t) - k))
                      /\ \A j \in 0..(k - 1) : IsSpace(At(t, Len(t) - j))
         IN  SubSeq(t, 1, Len(t) - k)

\* str.lstrip()
lstrip(t) ==
    IF \A i \in 1..Len(t) : IsSpace(At(t, i)) THEN ""
    ELSE LET k == CHOOSE k \in 1..Len(t) :
                      /\ ~IsSpace(At(t, k))
                      /\ \A j \in 1..(k - 1) : IsSpace(At(t, j))
         IN  SubSeq(t, k, Len(t))

\* str.strip()
strip(t) == rstrip(lstrip(t))

\* \b between t[i-1] and t[i] (i in 1..Len(t)+1): exactly one side is \w
Boundary(t, i) ==
    LET before == i > 1 /\ IsWord(At(t, i - 1))
        after  == i <= Len(t) /\ IsWord(At(t, i))
    IN  before # after

-----------------------------------------------------------------------------
(* re.sub: the matches of a pattern are found left to right, each search   *)
(* starting where the last match ended.  A pattern is given by the set of  *)
(* its candidate matches [s, e]: for every start s at which the pattern    *)
(* matches, the end e the backtracking matcher settles on.                 *)

HasFrom(cands, p) == \E c \in cands : c.s >= p

FirstFrom(cands, p) ==
    CHOOSE c \in cands : c.s >= p /\ \A d \in cands : d.s >= p => c.s <= d.s

RECURSIVE SubFrom(_, _, _, _)
SubFrom(t, cands, repl, p) ==
    IF ~HasFrom(cands, p) THEN SubSeq(t, p, Len(t))
    ELSE LET c == FirstFrom(cands, p)
         IN  SubSeq(t, p, c.s - 1) \o repl \o SubFrom(t, cands, repl, c.e + 1)

\* pattern.sub(repl, t)
ReSub(t, cands, repl) == SubFrom(t, cands, repl, 1)

\* the end of the run of characters of class cls that starts at i (i - 1: no run)
RunEnd(t, i, cls) ==
    IF i > Len(t) \/ At(t, i) \notin cls THEN i - 1
    ELSE CHOOSE e \in i..Len(t) :
             /\ (e = Len(t) \/ At(t, e + 1) \notin cls)
             /\ \A j \in i..e : At(t, j) \in cls

\* the end of the run of characters outside cls that starts at i (i - 1: no run)
RunEndNot(t, i, cls) ==
    IF i > Len(t) \/ At(t, i) \in cls THEN i - 1
    ELSE CHOOSE e \in i..Len(t) :
             /\ (e = Len(t) \/ At(t, e + 1) \in cls)
             /\ \A j \in i..e : At(t, j) \notin cls

\* t[i:].startswith(k), i from 1
StartsAt(t, i, k) ==
    i >= 1 /\ i + Len(k) - 1 <= Len(t) /\ SubSeq(t, i, i + Len(k) - 1) = k

-----------------------------------------------------------------------------
(* -------- Safety Filters --------                                        *)

\* PROFANITY = \b(fuck|shit|cunt|bitch|bastard|dick|asshole|wank|prick)\b, IGNORECASE
PROFANITY_TERMS ==
    <<"fuck", "shit", "cunt", "bitch", "bastard", "dick", "asshole", "wank", "prick">>

\* Every alternative is a run of letters, so with \b on both sides a match
\* is a whole word (a maximal run of \w) that, lower-cased, is an alternative.
IsProfanity(word) == \E k \in 1..Len(PROFANITY_TERMS) : PROFANITY_TERMS[k] = word

\* i starts a word: \b at i with \w after it
WordStart(t, i) == IsWord(At(t, i)) /\ (i = 1 \/ ~IsWord(At(t, i - 1)))

IsProfanityAt(t, c) ==
    /\ c.e - c.s + 1 \in { Len(PROFANITY_TERMS[k]) : k \in 1..Len(PROFANITY_TERMS) }
    /\ IsProfanity(lower(SubSeq(t, c.s, c.e)))

PROFANITY(t) ==
    { c \in { [s |-> i, e |-> RunEnd(t, i, WordChars)] :
                i \in { i \in 1..Len(t) : WordStart(t, i) } } :
        IsProfanityAt(t, c) }

\* URLS = https?://\S+
UrlPrefixLen(t, i) ==
    IF StartsAt(t, i, "https://") THEN 8
    ELSE IF StartsAt(t, i, "http://") THEN 7
    ELSE 0

URLS(t) ==
    { [s |-> i, e |-> RunEndNot(t, i + UrlPrefixLen(t, i), SpaceChars)] :
        i \in { i \in 1..Len(t) :
                  /\ At(t, i) = "h"
                  /\ UrlPrefixLen(t, i) # 0
                  /\ RunEndNot(t, i + UrlPrefixLen(t, i), SpaceChars)
                         >= i + UrlPrefixLen(t, i) } }

\* PII = \b(\d{3}[-.\s]?\d{3}[-.\s]?\d{4}|[A-Za-z0-9._%+-]+@[A-Za-z0-9.-]+\.[A-Za-z]{2,})\b
PhoneSeps == {"-", "."} \cup SpaceChars

EmailLocalChars == Letters \cup Digits \cup {".", "_", "%", "+", "-"}

EmailDomainChars == Letters \cup Digits \cup {".", "-"}

AllDigits(t, i, n) ==
    i + n - 1 <= Len(t) /\ \A j \in i..(i + n - 1) : At(t, j) \in Digits

\* the position after an optional [-.\s] at i
SkipSep(t, i) == IF i <= Len(t) /\ At(t, i) \in PhoneSeps THEN i + 1 ELSE i

\* the end of \d{3}[-.\s]?\d{3}[-.\s]?\d{4}\b matched at i (0: no match)
PhoneEnd(t, i) ==
    IF ~AllDigits(t, i, 3) THEN 0
    ELSE LET p2 == SkipSep(t, i + 3)
         IN  IF ~AllDigits(t, p2, 3) THEN 0
             ELSE LET p3 == SkipSep(t, p2 + 3)
                  IN  IF AllDigits(t, p3, 4) /\ Boundary(t, p3 + 4)
                      THEN p3 + 3 ELSE 0

\* a "." at p closes the domain: two letters or more follow, then \b
TldOk(t, p) ==
    LET m == RunEnd(t, p + 1, Letters)
    IN  At(t, p) = "." /\ m >= p + 2 /\ Boundary(t, m + 1)

\* the end of [A-Za-z0-9._%+-]+@[A-Za-z0-9.-]+\.[A-Za-z]{2,}\b matched at i
\* (0: no match): the local part runs to the "@", the greedy domain gives back
\* to the last "." that a top-level domain and a \b follow
EmailEnd(t, i) ==
    LET a == RunEnd(t, i, EmailLocalChars) + 1
    IN  IF a = i \/ a > Len(t) \/ At(t, a) # "@" THEN 0
        ELSE LET r    == RunEnd(t, a + 1, EmailDomainChars)
                 dots == { p \in (a + 2)..r : TldOk(t, p) }
             IN  IF dots = {} THEN 0
                 ELSE RunEnd(t, 1 + CHOOSE p \in dots : \A q \in dots : q <= p,
                             Letters)

\* the first alternative wins
PiiEnd(t, i) == IF PhoneEnd(t, i) # 0 THEN PhoneEnd(t, i) ELSE EmailEnd(t, i)

PII(t) ==
    { [s |-> i, e |-> PiiEnd(t, i)] :
        i \in { i \in 1..Len(t) :
                  /\ At(t, i) \in EmailLocalChars
                  /\ Boundary(t, i)
                  /\ PiiEnd(t, i) # 0 } }

\* Topics not suitable for teens
DISALLOWED_TEEN ==
    {"explicit sexual", "porn", "adult content",
     "detailed drug how-to", "weapon making", "self-harm instructions",
     "real-money gambling tips", "deepfake creation", "hacking tutorials"}

\* Topics allowed for child (strict allow-list)
ALLOWED_CHILD ==
    {"homework", "math", "science", "history", "geography", "reading", "writing",
     "spelling", "study skills", "school projects", "sports rules", "music basics",
     "art basics", "healthy habits", "time management", "friendship skills",
     "online safety", "bullying support", "feelings", "emotion regulation",
     "asking for help", "curiosity questions", "kid-safe facts"}

scrub_user_text_for_storage(text) ==
    LET t == ReSub(text, URLS(text), "[link removed]")
    IN  ReSub(t, PII(t), "[private removed]")

teen_guard(text) ==
    LET t == scrub_user_text_for_storage(text)
    IN  ReSub(t, PROFANITY(t), "[bleep]")

teen_blocks(text) ==
    LET low == lower(text) IN \E k \in DISALLOWED_TEEN : Contains(low, k)

\* the child tier guarded by the teen block-list
child_allowed_AsBlockList(text) ==
    LET low == lower(text) IN ~ \E k \in DISALLOWED_TEEN : Contains(low, k)

child_allowed(text) ==
    LET low == lower(text) IN \E topic \in ALLOWED_CHILD : Contains(low, topic)

\* len(reply) > 700 / reply[:680] in teen_sanitize_reply
TEEN_REPLY_MAX == 700

TEEN_REPLY_KEEP == 680

teen_sanitize_reply(reply) ==
    LET r1 == ReSub(reply, URLS(reply), "[link removed]")
        r2 == ReSub(r1, PII(r1), "[private removed]")
        r3 == ReSub(r2, PROFANITY(r2), "[bleep]")
        r4 == IF Len(r3) > TEEN_REPLY_MAX
              THEN rstrip(Slice(r3, TEEN_REPLY_KEEP)) \o "a^|"
              ELSE r3
    IN  "Herea^*s a safe, age-appropriate answer:\n"
        \o r4
        \o "\n\nIf this involves health, safety, or personal concerns, please talk with a parent/guardian or trusted adult."

\* Very short, supportive, educational, and safe
child_reply(user_text) ==
    "I can help with school topics and kid-safe questions. "
    \o "Try asking about homework, science, reading, history, or healthy habits. "
    \o "If your question feels personal or tricky, please ask a parent/guardian or teacher to help you."

-----------------------------------------------------------------------------
(* -------- PMEA reply (with optional OpenAI) --------                     *)

\* context_shards[:6]
CONTEXT_SHARDS_MAX == 6

FirstN(q, n) == IF Len(q) <= n THEN q ELSE SubSeq(q, 1, n)

\* sep.join(q)
RECURSIVE Join(_, _)
Join(sep, q) ==
    IF Len(q) = 0 THEN ""
    ELSE IF Len(q) = 1 THEN q[1]
    ELSE q[1] \o sep \o Join(sep, Tail(q))

Intro(context_shards) ==
    IF Len(context_shards) > 0
    THEN "Recent context:\n- "
         \o Join("\n- ", FirstN(context_shards, CONTEXT_SHARDS_MAX))
         \o "\n\n"
    ELSE ""

\* a failed call of the model yields the empty reply
pmea_style_reply_EmptyOnError(prompt, mode, context_shards, key, ext) ==
    LET intro == Intro(context_shards)
    IN  IF ~key
        THEN intro
             \o "Answer (local): I understood your request: '" \o prompt \o "'. "
             \o "I will keep it "
             \o (IF mode \in {"teen", "child"} THEN "extra safe"
                 ELSE "clear and practical")
             \o " and concise. "
             \o "Tell me the exact outcome you want and who ita^*s for."
        ELSE IF ext.ok
        THEN strip(ext.text)
        ELSE ""

\* The outcome of the external call is the environment's: ext.ok with the
\* message content ext.text, or an exception whose str() is ext.text.  It is
\* read only when OPENAI_API_KEY is set.
pmea_style_reply(prompt, mode, context_shards, key, ext) ==
    LET intro == Intro(context_shards)
    IN  IF ~key
        THEN intro
             \o "Answer (local): I understood your request: '" \o prompt \o "'. "
             \o "I will keep it "
             \o (IF mode \in {"teen", "child"} THEN "extra safe"
                 ELSE "clear and practical")
             \o " and concise. "
             \o "Tell me the exact outcome you want and who ita^*s for."
        ELSE IF ext.ok
        THEN strip(ext.text)
        ELSE intro
             \o "Answer: I understood your request but could not reach the model just now. "
             \o "Error: " \o ext.text \o ". Ia^*ll give a brief local suggestion: "
             \o "Break your goal into 2a^~3 steps and ask me for the first step in detail."

-----------------------------------------------------------------------------
(* -------- DB --------                                                    *)
(* users: user_id -> [age, verified, mode], a row per user_id present      *)
(* (user_id is the PRIMARY KEY).  memory_table: the rows of table memory   *)
(* in id order; id is AUTOINCREMENT and no row is ever deleted, so a row's *)
(* id is its index.  The timestamp column is filled by the database and is *)
(* read by no decision of the program; it is left out.                     *)

\* if age >= 18 / elif age >= 13 in set_user
ADULT_AGE == 18

TEEN_AGE == 13

\* the teen tier starts one year late
set_user_mode_LateTeen(age) ==
    IF age >= ADULT_AGE THEN "adult"
    ELSE IF age > TEEN_AGE THEN "teen"
    ELSE "child"

\* the mode set_user derives from age
set_user_mode(age) ==
    IF age >= ADULT_AGE THEN "adult"
    ELSE IF age >= TEEN_AGE THEN "teen"
    ELSE "child"

\* the row keeps the column default of verified
set_user_Unverified(tbl, user_id, age) ==
    [v \in DOMAIN tbl \cup {user_id} |->
        IF v = user_id
        THEN [age |-> age, verified |-> 0, mode |-> set_user_mode(age)]
        ELSE tbl[v]]

\* INSERT OR IGNORE: the first row of a user_id is kept
set_user_KeepsFirst(tbl, user_id, age) ==
    [v \in DOMAIN tbl \cup {user_id} |->
        IF v \in DOMAIN tbl
        THEN tbl[v]
        ELSE [age |-> age, verified |-> 1, mode |-> set_user_mode(age)]]

\* INSERT OR REPLACE INTO users: the table after set_user(user_id, age)
set_user(tbl, user_id, age) ==
    [v \in DOMAIN tbl \cup {user_id} |->
        IF v = user_id
        THEN [age |-> age, verified |-> 1, mode |-> set_user_mode(age)]
        ELSE tbl[v]]

\* what set_user returns
set_user_info(age) ==
    [verified |-> TRUE, mode |-> set_user_mode(age), age |-> age]

\* get_user: <<>> for None, else <<[age, verified, mode]>>
get_user(tbl, user_id) ==
    IF user_id \notin DOMAIN tbl THEN <<>>
    ELSE <<[age      |-> tbl[user_id].age,
            verified |-> tbl[user_id].verified # 0,
            mode     |-> tbl[user_id].mode]>>

\* INSERT INTO memory (user_id, role, text)
save_memory(mem, user_id, role, text) ==
    Append(mem, [id |-> Len(mem) + 1, user_id |-> user_id,
                 role |-> role, text |-> text])

\* the rows of every user
RowsOf_AllUsers(mem, user_id) == 1..Len(mem)

\* the ids of the rows of user_id
RowsOf(mem, user_id) == { i \in 1..Len(mem) : mem[i].user_id = user_id }

\* the k-th greatest id among ids
KthNewest(ids, k) ==
    CHOOSE i \in ids : Cardinality({ j \in ids : j >= i }) = k

\* ORDER BY id ASC: the oldest rows first
load_memory_OldestFirst(mem, user_id, limit) ==
    LET ids == RowsOf(mem, user_id)
        n   == IF limit < 0 \/ limit > Cardinality(ids)
               THEN Cardinality(ids) ELSE limit
    IN  [k \in 1..n |->
            [role |-> mem[KthNewest(ids, Cardinality(ids) + 1 - k)].role,
             text |-> mem[KthNewest(ids, Cardinality(ids) + 1 - k)].text]]

\* SELECT role, text FROM memory WHERE user_id=? ORDER BY id DESC LIMIT ?
\* (SQLite: a negative LIMIT is no limit)
load_memory(mem, user_id, limit) ==
    LET ids == RowsOf(mem, user_id)
        n   == IF limit < 0 \/ limit > Cardinality(ids)
               THEN Cardinality(ids) ELSE limit
    IN  [k \in 1..n |-> [role |-> mem[KthNewest(ids, k)].role,
                         text |-> mem[KthNewest(ids, k)].text]]

-----------------------------------------------------------------------------
(* -------- Routes --------                                                *)
(* A handler is an operator from the tables and the request to the tables  *)
(* it leaves and the response it returns; `last` keeps the last request    *)
(* handled with that response and the calls of pmea_style_reply made.      *)
(* Of the markers of a chat response only "mode" and the reply (the Done   *)
(* marker is the reply again) are kept: the others are fixed texts.        *)

\* set_user(body.user_id, 10) for an unknown user
DEFAULT_AGE == 10

\* body.limit or 10
DEFAULT_CHAT_LIMIT == 10

\* text[:160]
SHARD_MAX == 160

\* len(base) > 500 / base[:480]
CHILD_REPLY_MAX == 500

CHILD_REPLY_KEEP == 480

\* safe_user[:200]
TEEN_STORE_MAX == 200

\* raw_text[:800] / reply[:1200]
ADULT_USER_MAX == 800

ADULT_REPLY_MAX == 1200

NoRequest ==
    [op |-> "none", user_id |-> "", age |-> 0, message |-> "", limit |-> <<>>,
     status |-> 0, mode |-> "", response |-> "", items |-> <<>>,
     created |-> FALSE, written |-> <<>>, calls |-> <<>>]

\* the worker threads that run the handlers of chat side by side
Slots == {"a", "b"}

\* a worker thread that runs no chat
IdleSlot ==
    [pc |-> "idle", user_id |-> "", message |-> "", limit |-> <<>>,
     mode |-> "", created |-> FALSE, context_shards |-> <<>>, rows |-> <<>>]

\* POST /age-verify
age_verify(user_id, age) ==
    /\ last.op = "none"
    /\ users' = IF user_id = "" THEN users ELSE set_user(users, user_id, age)
    /\ last' = [NoRequest EXCEPT
                  !.op = "age_verify", !.user_id = user_id, !.age = age,
                  !.status = IF user_id = "" THEN 400 ELSE 200,
                  !.mode = IF user_id = "" THEN ""
                           ELSE set_user_info(age).mode]
    /\ UNCHANGED <<memory_table, has_openai, inflight>>

\* recall without the child branch
MemoryOutcome_NoChildBranch(tbl, mem, user_id, limit) ==
    LET user == get_user(tbl, user_id)
    IN  IF user = <<>>
        THEN [status |-> 404, mode |-> "", items |-> <<>>]
        ELSE [status |-> 200, mode |-> user[1].mode,
              items |-> load_memory(mem, user_id, limit)]

\* GET /memory: the status, the user_mode and the items of the response
MemoryOutcome(tbl, mem, user_id, limit) ==
    LET user == get_user(tbl, user_id)
    IN  IF user = <<>>
        THEN [status |-> 404, mode |-> "", items |-> <<>>]
        ELSE IF user[1].mode = "child"
        THEN [status |-> 200, mode |-> "child", items |-> <<>>]
        ELSE [status |-> 200, mode |-> user[1].mode,
              items |-> load_memory(mem, user_id, limit)]

\* recall gives an unknown user the default profile, as chat does
memory_CreatesProfile(user_id, limit) ==
    /\ last.op = "none"
    /\ users' = IF get_user(users, user_id) = <<>>
                THEN set_user(users, user_id, DEFAULT_AGE)
                ELSE users
    /\ \E out \in {MemoryOutcome(users', memory_table, user_id, limit)} :
          last' = [NoRequest EXCEPT
                     !.op = "memory", !.user_id = user_id, !.limit = <<limit>>,
                     !.status = out.status, !.mode = out.mode,
                     !.items = out.items]
    /\ UNCHANGED <<memory_table, has_openai, inflight>>

memory(user_id, limit) ==
    /\ last.op = "none"
    /\ \E out \in {MemoryOutcome(users, memory_table, user_id, limit)} :
          last' = [NoRequest EXCEPT
                     !.op = "memory", !.user_id = user_id, !.limit = <<limit>>,
                     !.status = out.status, !.mode = out.mode,
                     !.items = out.items]
    /\ UNCHANGED <<users, memory_table, has_openai, inflight>>

\* the non-empty stripped texts of the context items, each cut to 160
RECURSIVE ContextShards(_)
ContextShards(items) ==
    IF Len(items) = 0 THEN <<>>
    ELSE LET text == strip(items[1].text)
         IN  (IF text # "" THEN <<Slice(text, SHARD_MAX)>> ELSE <<>>)
             \o ContextShards(Tail(items))

\* a call of pmea_style_reply and what it returned
Call(prompt, mode, context_shards, key, ext) ==
    [prompt |-> prompt, mode |-> mode, context_shards |-> context_shards,
     raised |-> key /\ ~ext.ok,
     error  |-> IF key /\ ~ext.ok THEN ext.text ELSE "",
     result |-> pmea_style_reply(prompt, mode, context_shards, key, ext)]

\* an unknown user defaults to the teen tier
EnsureUser_DefaultTeen(tbl, user_id) ==
    IF get_user(tbl, user_id) = <<>>
    THEN set_user(tbl, user_id, TEEN_AGE)
    ELSE tbl

\* ensure user exists: default to child if unknown age (ultra safe)
EnsureUser(tbl, user_id) ==
    IF get_user(tbl, user_id) = <<>>
    THEN set_user(tbl, user_id, DEFAULT_AGE)
    ELSE tbl

\* the child branch that answers: the reply built from the model's answer
ChildAnswer(base) ==
    LET b1 == ReSub(base, URLS(base), "[link removed]")
        b2 == ReSub(b1, PII(b1), "[private removed]")
        b3 == IF Len(b2) > CHILD_REPLY_MAX
              THEN rstrip(Slice(b2, CHILD_REPLY_KEEP)) \o "a^|"
              ELSE b2
    IN  b3 \o "\n\nRemember: if something feels confusing or personal, please ask a parent/guardian or teacher to help."

\* the child branch keeps the reply as a memory row
ChildOutcome_Stores(tbl1, mem, key, user_id, mode, raw_text, context_shards, ext) ==
    IF ~child_allowed(raw_text)
    THEN [users |-> tbl1,
          memory |-> save_memory(mem, user_id, "assistant", child_reply(raw_text)),
          mode |-> mode,
          response |-> child_reply(raw_text), calls |-> <<>>]
    ELSE LET call == Call(raw_text, mode, context_shards, key, ext)
         IN  [users |-> tbl1,
              memory |-> save_memory(mem, user_id, "assistant",
                                     ChildAnswer(call.result)),
              mode |-> mode,
              response |-> ChildAnswer(call.result), calls |-> <<call>>]

\* if mode == "child": no persistent memory; extremely safe
ChildOutcome(tbl1, mem, key, user_id, mode, raw_text, context_shards, ext) ==
    IF ~child_allowed(raw_text)
    THEN [users |-> tbl1, memory |-> mem, mode |-> mode,
          response |-> child_reply(raw_text), calls |-> <<>>]
    ELSE LET call == Call(raw_text, mode, context_shards, key, ext)
         IN  [users |-> tbl1, memory |-> mem, mode |-> mode,
              response |-> ChildAnswer(call.result), calls |-> <<call>>]

TEEN_REFUSAL ==
    "I cana^*t help with that topic in teen mode. "
    \o "I can support study help, wellbeing basics, and safe life skills. "
    \o "If this is important, please talk with a trusted adult."

\* the refusal also keeps the message of the user
TeenRefusalOutcome_StoresUser(tbl1, mem, user_id, mode, raw_text) ==
    [users |-> tbl1,
     memory |-> save_memory(save_memory(mem, user_id, "user", raw_text),
                            user_id, "assistant", "(Teen-safe refusal issued)"),
     mode |-> mode,
     response |-> teen_sanitize_reply(TEEN_REFUSAL),
     calls |-> <<>>]

\* if teen_blocks(raw_text): refuse; store only a minimal assistant note
TeenRefusalOutcome(tbl1, mem, user_id, mode, raw_text) ==
    [users |-> tbl1,
     memory |-> save_memory(mem, user_id, "assistant",
                            "(Teen-safe refusal issued)"),
     mode |-> mode,
     response |-> teen_sanitize_reply(TEEN_REFUSAL),
     calls |-> <<>>]

\* sanitize user text before storing; generate reply; sanitize reply
TeenAnswerOutcome(tbl1, mem, key, user_id, mode, safe_user, context_shards, ext) ==
    LET m1 == save_memory(mem, user_id, "user",
                          "(teen) " \o Slice(safe_user, TEEN_STORE_MAX))
        call == Call(safe_user, mode, context_shards, key, ext)
    IN  [users |-> tbl1,
         memory |-> save_memory(m1, user_id, "assistant", "(teen) reply issued"),
         mode |-> mode,
         response |-> teen_sanitize_reply(call.result),
         calls |-> <<call>>]

\* the teen branch passes the message on as it came
TeenOutcome_Unsanitized(tbl1, mem, key, user_id, mode, raw_text, context_shards, ext) ==
    IF teen_blocks(raw_text)
    THEN TeenRefusalOutcome(tbl1, mem, user_id, mode, raw_text)
    ELSE TeenAnswerOutcome(tbl1, mem, key, user_id, mode, raw_text,
                           context_shards, ext)

\* if mode == "teen"
TeenOutcome(tbl1, mem, key, user_id, mode, raw_text, context_shards, ext) ==
    IF teen_blocks(raw_text)
    THEN TeenRefusalOutcome(tbl1, mem, user_id, mode, raw_text)
    ELSE TeenAnswerOutcome(tbl1, mem, key, user_id, mode, teen_guard(raw_text),
                           context_shards, ext)

\* adult mode
AdultOutcome(tbl1, mem, key, user_id, mode, raw_text, context_shards, ext) ==
    LET m1 == save_memory(mem, user_id, "user", Slice(raw_text, ADULT_USER_MAX))
        call == Call(raw_text, mode, context_shards, key, ext)
        reply == strip(call.result)
    IN  [users |-> tbl1,
         memory |-> save_memory(m1, user_id, "assistant",
                                Slice(reply, ADULT_REPLY_MAX)),
         mode |-> mode,
         response |-> reply,
         calls |-> <<call>>]

\* Route by mode
RouteByMode(tbl1, mem, key, user_id, mode, raw_text, context_shards, ext) ==
    IF mode = "child"
    THEN ChildOutcome(tbl1, mem, key, user_id, mode, raw_text, context_shards, ext)
    ELSE IF mode = "teen"
    THEN TeenOutcome(tbl1, mem, key, user_id, mode, raw_text, context_shards, ext)
    ELSE AdultOutcome(tbl1, mem, key, user_id, mode, raw_text, context_shards, ext)

\* body.limit or 10
ChatLimit(limit) ==
    IF limit = <<>> \/ limit = <<0>> THEN DEFAULT_CHAT_LIMIT ELSE limit[1]

\* POST /chat: the tables it leaves, the response and the model calls
ChatOutcome(tbl, mem, key, user_id, message, limit, ext) ==
    RouteByMode(EnsureUser(tbl, user_id), mem, key, user_id,
                get_user(EnsureUser(tbl, user_id), user_id)[1].mode,
                strip(message),
                ContextShards(load_memory(mem, user_id, ChatLimit(limit))),
                ext)

-----------------------------------------------------------------------------
(* The requests explored.                                                  *)

\* the rows table memory may hold: a chat that would exceed it is not taken
MaxRows == 2

UserIds == {"u1", "u2"}

Ages == {12, 13, 18}

\* n copies of t, by halves
RECURSIVE Repeat(_, _)
Repeat(t, n) ==
    IF n = 0 THEN ""
    ELSE IF n = 1 THEN t
    ELSE Repeat(t, n \div 2) \o Repeat(t, n - n \div 2)

\* 202 characters: the cut at 200 falls inside the last word
LongMessage == Repeat("pad ", 49) \o "shitty"

Messages ==
    {"",
     "  Help with my MATH homework  ",
     "where do I find porn",
     "shitty shit, see http://x.co or mail a@b.co or http://",
     LongMessage}

MemoryLimits == {-1, 0, 1, 2}

ChatLimits == {<<>>}

\* what the external model call may do when OPENAI_API_KEY is set
NoExt == [ok |-> FALSE, text |-> ""]

ExtOutcomes ==
    {[ok |-> TRUE, text |-> " Sure: read https://x.co, damn shit. "],
     [ok |-> FALSE, text |-> "Connection error"]}

chat(user_id, message, limit, ext) ==
    /\ last.op = "none"
    /\ \E out \in {ChatOutcome(users, memory_table, has_openai,
                               user_id, message, limit, ext)} :
          /\ Len(out.memory) <= MaxRows
          /\ users' = out.users
          /\ memory_table' = out.memory
          /\ last' = [NoRequest EXCEPT
                        !.op = "chat", !.user_id = user_id, !.message = message,
                        !.limit = limit, !.status = 200, !.mode = out.mode,
                        !.response = out.response,
                        !.created = (user_id \notin DOMAIN users),
                        !.written = SubSeq(out.memory, Len(memory_table) + 1,
                                           Len(out.memory)),
                        !.calls = out.calls]
          /\ UNCHANGED <<has_openai, inflight>>

\* the response is returned to the caller; the server awaits the next request
respond ==
    /\ last.op # "none"
    /\ last' = NoRequest
    /\ UNCHANGED <<users, memory_table, has_openai, inflight>>

Init ==
    /\ users = <<>>
    /\ memory_table = <<>>
    /\ has_openai \in BOOLEAN
    /\ last = NoRequest
    /\ inflight = [p \in Slots |-> IdleSlot]

Next ==
    \/ \E user_id \in UserIds \cup {""}, age \in Ages : age_verify(user_id, age)
    \/ \E user_id \in UserIds, limit \in MemoryLimits : memory(user_id, limit)
    \/ \E user_id \in UserIds, message \in Messages, limit \in ChatLimits,
          ext \in IF has_openai THEN ExtOutcomes ELSE {NoExt} :
            chat(user_id, message, limit, ext)
    \/ respond

Spec == Init /\ [][Next]_vars

\* ages around the tier boundaries and around the ends of a human age range
AgesWide == {-1, 0, 1, 12, 13, 14, 17, 18, 19, 120, 121}

NextAges ==
    \/ \E user_id \in UserIds \cup {""}, age \in AgesWide :
          age_verify(user_id, age)
    \/ respond

\* age verification alone, over the wider set of ages
SpecAges == Init /\ [][NextAges]_vars

-----------------------------------------------------------------------------
(* chat run by several worker threads.  The handlers are plain `def`       *)
(* functions, which the framework runs in a thread pool, and every helper  *)
(* of the DB section opens its own connection and commits: a step is one   *)
(* such helper call together with the local computation that follows it.   *)
(* age_verify makes one call (set_user) and is one step.                   *)

\* the rows table memory may hold in these runs
MaxConcRows == 4

ConcUserIds == {"u1"}

ConcMessages == {"  Help with my MATH homework  ", "where do I find porn"}

\* user = get_user(body.user_id)
chat_get_user(p, user_id, message, limit) ==
    /\ inflight[p].pc = "idle"
    /\ Len(memory_table) + 2
          + 2 * Cardinality({q \in Slots : inflight[q].pc # "idle"})
          <= MaxConcRows
    /\ \E user \in {get_user(users, user_id)} :
          inflight' = [inflight EXCEPT ![p] =
              [IdleSlot EXCEPT
                 !.pc = IF user = <<>> THEN "set_user" ELSE "load_memory",
                 !.user_id = user_id, !.message = message, !.limit = limit,
                 !.mode = IF user = <<>> THEN "" ELSE user[1].mode]]
    /\ UNCHANGED <<users, memory_table, has_openai, last>>

\* if not user: set_user(body.user_id, 10)
chat_set_user(p) ==
    /\ inflight[p].pc = "set_user"
    /\ users' = set_user(users, inflight[p].user_id, DEFAULT_AGE)
    /\ inflight' = [inflight EXCEPT ![p].pc = "get_user_again",
                                     ![p].created = TRUE]
    /\ UNCHANGED <<memory_table, has_openai, last>>

\* user = get_user(body.user_id), after the default profile was written
chat_get_user_again(p) ==
    /\ inflight[p].pc = "get_user_again"
    /\ inflight' = [inflight EXCEPT
                      ![p].pc = "load_memory",
                      ![p].mode = get_user(users, inflight[p].user_id)[1].mode]
    /\ UNCHANGED <<users, memory_table, has_openai, last>>

\* context_items = load_memory(...), the shards, and the route by mode
chat_load_memory(p) ==
    /\ inflight[p].pc = "load_memory"
    /\ inflight' = [inflight EXCEPT
          ![p].context_shards =
              ContextShards(load_memory(memory_table, inflight[p].user_id,
                                        ChatLimit(inflight[p].limit))),
          ![p].pc =
              IF inflight[p].mode = "child" THEN "child_reply"
              ELSE IF inflight[p].mode = "teen"
                      /\ teen_blocks(strip(inflight[p].message))
              THEN "save_refusal"
              ELSE "save_user"]
    /\ UNCHANGED <<users, memory_table, has_openai, last>>

\* the response of the chat that slot r ran, with the rows it wrote
ChatResponse(r, mem, response, calls) ==
    [NoRequest EXCEPT
       !.op = "chat", !.user_id = r.user_id, !.message = r.message,
       !.limit = r.limit, !.status = 200, !.mode = r.mode,
       !.response = response, !.created = r.created,
       !.written = [k \in 1..Len(r.rows) |-> mem[r.rows[k]]],
       !.calls = calls]

\* the child branch: it reads and writes no table
chat_child_reply(p, ext) ==
    /\ inflight[p].pc = "child_reply"
    /\ \E r \in {inflight[p]} :
       \E out \in {ChildOutcome(users, memory_table, has_openai, r.user_id,
                                r.mode, strip(r.message), r.context_shards,
                                ext)} :
          last' = ChatResponse(r, memory_table, out.response, out.calls)
    /\ inflight' = [inflight EXCEPT ![p] = IdleSlot]
    /\ UNCHANGED <<users, memory_table, has_openai>>

\* the teen refusal: save_memory(..., "(Teen-safe refusal issued)")
chat_save_refusal(p) ==
    /\ inflight[p].pc = "save_refusal"
    /\ \E r \in {inflight[p]} :
       \E out \in {TeenRefusalOutcome(users, memory_table, r.user_id, r.mode,
                                      strip(r.message))} :
          /\ memory_table' = out.memory
          /\ last' = ChatResponse([r EXCEPT !.rows = <<Len(out.memory)>>],
                                  out.memory, out.response, out.calls)
    /\ inflight' = [inflight EXCEPT ![p] = IdleSlot]
    /\ UNCHANGED <<users, has_openai>>

\* the text of the user row: f"(teen) {safe_user[:200]}" or raw_text[:800]
UserRowText(mode, raw_text) ==
    IF mode = "teen"
    THEN "(teen) " \o Slice(teen_guard(raw_text), TEEN_STORE_MAX)
    ELSE Slice(raw_text, ADULT_USER_MAX)

\* save_memory(body.user_id, "user", ...) of the teen and the adult branch
chat_save_user(p) ==
    /\ inflight[p].pc = "save_user"
    /\ memory_table' =
          save_memory(memory_table, inflight[p].user_id, "user",
                      UserRowText(inflight[p].mode, strip(inflight[p].message)))
    /\ inflight' = [inflight EXCEPT
                      ![p].pc = "save_assistant",
                      ![p].rows = <<Len(memory_table) + 1>>]
    /\ UNCHANGED <<users, has_openai, last>>

\* the call of pmea_style_reply, the reply, and
\* save_memory(body.user_id, "assistant", ...) of the teen and adult branch
chat_save_assistant(p, ext) ==
    /\ inflight[p].pc = "save_assistant"
    /\ \E r \in {inflight[p]} :
       \E call \in {Call(IF r.mode = "teen" THEN teen_guard(strip(r.message))
                         ELSE strip(r.message),
                         r.mode, r.context_shards, has_openai, ext)} :
       \E reply \in {IF r.mode = "teen" THEN teen_sanitize_reply(call.result)
                      ELSE strip(call.result)} :
          /\ memory_table' =
                save_memory(memory_table, r.user_id, "assistant",
                            IF r.mode = "teen" THEN "(teen) reply issued"
                            ELSE Slice(reply, ADULT_REPLY_MAX))
          /\ last' = ChatResponse(
                        [r EXCEPT !.rows = Append(r.rows, Len(memory_table) + 1)],
                        memory_table', reply, <<call>>)
    /\ inflight' = [inflight EXCEPT ![p] = IdleSlot]
    /\ UNCHANGED <<users, has_openai>>

NextConc ==
    \/ \E user_id \in ConcUserIds, age \in Ages : age_verify(user_id, age)
    \/ respond
    \/ \E p \in Slots, user_id \in ConcUserIds, message \in ConcMessages,
          limit \in ChatLimits : chat_get_user(p, user_id, message, limit)
    \/ \E p \in Slots : chat_set_user(p)
    \/ \E p \in Slots : chat_get_user_again(p)
    \/ \E p \in Slots : chat_load_memory(p)
    \/ \E p \in Slots, ext \in IF has_openai THEN ExtOutcomes ELSE {NoExt} :
          chat_child_reply(p, ext)
    \/ \E p \in Slots : chat_save_refusal(p)
    \/ \E p \in Slots : chat_save_user(p)
    \/ \E p \in Slots, ext \in IF has_openai THEN ExtOutcomes ELSE {NoExt} :
          chat_save_assistant(p, ext)

\* age-verify and two chat handlers running side by side
SpecConc == Init /\ [][NextConc]_vars

-----------------------------------------------------------------------------
(* Properties of the child tier and of the first chat of a user.           *)

\* the ids of the rows of a user
IdsOf(user_id) ==
    {i \in 1..Len(memory_table) : memory_table[i].user_id = user_id}

\* the message names one of the keywords, in whatever letter case
NamesAny(message, keywords) ==
    \E low \in {lower(message)} : \E k \in keywords : Contains(low, k)

\* C1: a chat request handled in child mode inserts no row into the memory
\* table, whatever the message, also when it is the first chat of a user_id
\* without a profile.
C1_ChildChatStoresNothing ==
    [][(last'.op = "chat" /\ last'.mode = "child")
          => memory_table' = memory_table]_vars

\* a first chat of an unknown user was answered by the model in child mode
\* while the table holds rows of other requests
C1_Witness ==
    /\ last.op = "chat"
    /\ last.mode = "child"
    /\ last.created
    /\ last.calls # <<>>
    /\ Len(memory_table) > 0

\* C2: recall for a user whose stored tier is child returns the empty list,
\* even when the memory table holds rows of that user_id from an earlier
\* tier; for a teen or an adult it returns the stored rows of that user,
\* newest first, as many as the limit allows.
C2_RecallByTier ==
    (last.op = "memory" /\ last.status = 200) =>
        LET ids == IdsOf(last.user_id)
            limit == last.limit[1]
            n == Len(last.items)
        IN  IF users[last.user_id].mode = "child"
            THEN last.items = <<>>
            ELSE /\ n = IF limit < 0 \/ limit > Cardinality(ids)
                        THEN Cardinality(ids) ELSE limit
                 /\ \A k \in 1..n :
                       \E i \in ids :
                          /\ Cardinality({j \in ids : j > i}) = k - 1
                          /\ last.items[k].role = memory_table[i].role
                          /\ last.items[k].text = memory_table[i].text

\* a child recalls nothing although rows of an earlier tier are stored
C2_Witness ==
    /\ last.op = "memory"
    /\ last.status = 200
    /\ users[last.user_id].mode = "child"
    /\ IdsOf(last.user_id) # {}
    /\ last.items = <<>>

\* C3 as stated: a chat request for a user_id without a profile leaves the
\* users table and the memory table unchanged and does not invoke the model.
C3_Original ==
    [][(last'.op = "chat" /\ last'.user_id \notin DOMAIN users)
          => /\ users' = users
             /\ memory_table' = memory_table
             /\ last'.calls = <<>>]_vars

\* C3: a chat request for a user_id without a profile creates the default
\* profile (age 10, verified, child tier) for that user_id and is handled in
\* child mode: the memory table is unchanged and the model is invoked exactly
\* when the message names an allowed child topic.  Every stored profile is
\* verified, so no chat meets an unverified profile.
C3_UnknownUserBecomesChild ==
    [][(last'.op = "chat" /\ last'.user_id \notin DOMAIN users)
          => /\ DOMAIN users' = DOMAIN users \cup {last'.user_id}
             /\ \A u \in DOMAIN users : users'[u] = users[u]
             /\ users'[last'.user_id] =
                   [age |-> 10, verified |-> 1, mode |-> "child"]
             /\ \A u \in DOMAIN users' : users'[u].verified = 1
             /\ last'.mode = "child"
             /\ memory_table' = memory_table
             /\ (last'.calls # <<>>) <=> NamesAny(last'.message, ALLOWED_CHILD)]_vars

\* the first chat of an unknown user reached the model
C3_Witness ==
    /\ last.op = "chat"
    /\ last.created
    /\ users[last.user_id] = [age |-> 10, verified |-> 1, mode |-> "child"]
    /\ last.calls # <<>>
    /\ last.response # ""

-----------------------------------------------------------------------------
(* Properties of the stored profile and of the tier guard.                 *)

\* C4 as stated: once a user_id has a verified profile, its stored age and
\* tier are the same in every later state.
C4_Original ==
    [][\A u \in DOMAIN users :
          users[u].verified = 1 =>
             /\ u \in DOMAIN users'
             /\ users'[u].age = users[u].age
             /\ users'[u].mode = users[u].mode]_vars

\* C4: the profile of a user_id that has one is changed by age-verify only,
\* and every accepted age-verify for that user_id overwrites the stored age
\* and tier with the supplied age and the tier derived from it; chat and
\* recall leave an existing profile as it is.
C4_ProfileFollowsLastAgeVerify ==
    [][/\ \A u \in DOMAIN users :
             /\ u \in DOMAIN users'
             /\ users'[u] # users[u] =>
                   (last'.op = "age_verify" /\ last'.user_id = u)
       /\ (last'.op = "age_verify" /\ last'.status = 200) =>
             /\ last'.user_id \in DOMAIN users'
             /\ users'[last'.user_id].age = last'.age
             /\ users'[last'.user_id].verified = 1
             /\ users'[last'.user_id].mode =
                   IF last'.age < 13 THEN "child"
                   ELSE IF last'.age < 18 THEN "teen" ELSE "adult"]_vars

\* a user that owns memory rows, so was a teen or an adult, is now verified
\* as a child by a later age-verify
C4_Witness ==
    /\ last.op = "age_verify"
    /\ last.status = 200
    /\ users[last.user_id].age = last.age
    /\ users[last.user_id].mode = "child"
    /\ IdsOf(last.user_id) # {}

\* the tiers in their order
Rank(mode) == CASE mode = "child" -> 1 [] mode = "teen" -> 2 [] mode = "adult" -> 3

\* C5: every stored profile has exactly one of the tiers child, teen, adult:
\* child iff age < 13, teen iff 13 <= age < 18, adult iff age >= 18; a
\* greater age never has a lower tier.
C5_TiersPartitionAges ==
    /\ \A u \in DOMAIN users :
          LET a == users[u].age
              m == users[u].mode
          IN  /\ m \in {"child", "teen", "adult"}
              /\ (m = "child") <=> (a < 13)
              /\ (m = "teen") <=> (13 <= a /\ a < 18)
              /\ (m = "adult") <=> (a >= 18)
    /\ \A u, v \in DOMAIN users :
          users[u].age <= users[v].age =>
             Rank(users[u].mode) <= Rank(users[v].mode)
    /\ last.op = "age_verify" /\ last.status = 200 =>
          /\ users[last.user_id].age = last.age
          /\ last.mode = users[last.user_id].mode

\* age-verify has stored a 17 year old as a teen next to an 18 year old adult
C5_Witness ==
    /\ last.op = "age_verify"
    /\ last.status = 200
    /\ \E u, v \in DOMAIN users :
          /\ users[u].age = 17 /\ users[u].mode = "teen"
          /\ users[v].age = 18 /\ users[v].mode = "adult"

\* C6: the guard that decides whether a chat message reaches the model is an
\* allow-list in child mode (the model is invoked iff the message names an
\* allowed topic, so the empty message is refused), a block-list in teen mode
\* (the model is invoked iff the message names no disallowed term, so the
\* empty message is answered), and absent in adult mode (always invoked).
C6_GuardByTier ==
    last.op = "chat" =>
        /\ last.mode \in {"child", "teen", "adult"}
        /\ Len(last.calls) <= 1
        /\ last.mode = "child" =>
              ((last.calls # <<>>) <=> NamesAny(last.message, ALLOWED_CHILD))
        /\ last.mode = "teen" =>
              ((last.calls # <<>>) <=> ~NamesAny(last.message, DISALLOWED_TEEN))
        /\ last.mode = "adult" => last.calls # <<>>
        /\ (last.message = "" /\ last.mode = "child") => last.calls = <<>>
        /\ (last.message = "" /\ last.mode = "teen") => last.calls # <<>>

\* the empty message of a teen was passed to the model
C6_Witness ==
    /\ last.op = "chat"
    /\ last.mode = "teen"
    /\ last.message = ""
    /\ last.calls # <<>>

-----------------------------------------------------------------------------
(* Properties of the teen and the adult branch of chat.                    *)

\* C7 as stated: every memory row written by a teen-mode chat contains no
\* "http://" and no "https://", contains none of the profane terms as a
\* substring, and is no longer than the stored prefix and 200 characters.
C7_Original ==
    (last.op = "chat" /\ last.mode = "teen") =>
        \A r \in 1..Len(last.written) :
            \E low \in {lower(last.written[r].text)} :
                /\ ~Contains(low, "http://")
                /\ ~Contains(low, "https://")
                /\ \A n \in 1..Len(PROFANITY_TERMS) :
                      ~Contains(low, PROFANITY_TERMS[n])
                /\ Len(low) <= Len("(teen) ") + TEEN_STORE_MAX

\* the refusal as the teen reply wrapper returns it
TeenRefusalReply ==
    "Herea^*s a safe, age-appropriate answer:\n"
    \o "I cana^*t help with that topic in teen mode. "
    \o "I can support study help, wellbeing basics, and safe life skills. "
    \o "If this is important, please talk with a trusted adult."
    \o "\n\nIf this involves health, safety, or personal concerns, please talk with a parent/guardian or trusted adult."

\* C8: a teen-mode chat whose message names a disallowed term returns the
\* fixed refusal text, does not invoke the model, and adds exactly one row to
\* the memory table: the fixed assistant marker, which holds nothing of the
\* message.
C8_TeenRefusal ==
    [][(/\ last'.op = "chat"
        /\ last'.mode = "teen"
        /\ NamesAny(last'.message, DISALLOWED_TEEN))
          => /\ last'.response = TeenRefusalReply
             /\ last'.calls = <<>>
             /\ memory_table' =
                   Append(memory_table,
                          [id |-> Len(memory_table) + 1,
                           user_id |-> last'.user_id,
                           role |-> "assistant",
                           text |-> "(Teen-safe refusal issued)"])]_vars

\* a teen was refused and the marker is the newest row
C8_Witness ==
    /\ last.op = "chat"
    /\ last.mode = "teen"
    /\ NamesAny(last.message, DISALLOWED_TEEN)
    /\ last.response = TeenRefusalReply
    /\ Len(memory_table) > 0
    /\ memory_table[Len(memory_table)].text = "(Teen-safe refusal issued)"

\* C9 as stated: on the allow branch of a teen-mode chat the model is invoked
\* with the sanitized input, the user row holds the sanitized input and the
\* assistant row holds the sanitized model output that is returned.
C9_Original ==
    [][(last'.op = "chat" /\ last'.mode = "teen" /\ last'.calls # <<>>)
          => \E safe \in {teen_guard(strip(last'.message))} :
                /\ last'.calls[1].prompt = safe
                /\ Len(memory_table') = Len(memory_table) + 2
                /\ memory_table'[Len(memory_table) + 1].role = "user"
                /\ memory_table'[Len(memory_table) + 1].text = safe
                /\ memory_table'[Len(memory_table) + 2].role = "assistant"
                /\ memory_table'[Len(memory_table) + 2].text = last'.response]_vars

\* C9: on the allow branch of a teen-mode chat the model is invoked once,
\* with the sanitized input; the response is the sanitized model output; two
\* rows are appended: a user row holding "(teen) " and the first 200
\* characters of the sanitized input, then an assistant row holding the fixed
\* text "(teen) reply issued" and not the reply.
C9_TeenAnswer ==
    [][(last'.op = "chat" /\ last'.mode = "teen" /\ last'.calls # <<>>)
          => \E safe \in {teen_guard(strip(last'.message))} :
                /\ Len(last'.calls) = 1
                /\ last'.calls[1].prompt = safe
                /\ last'.response = teen_sanitize_reply(last'.calls[1].result)
                /\ memory_table' =
                      memory_table \o
                      <<[id |-> Len(memory_table) + 1,
                         user_id |-> last'.user_id,
                         role |-> "user",
                         text |-> "(teen) " \o Slice(safe, 200)],
                        [id |-> Len(memory_table) + 2,
                         user_id |-> last'.user_id,
                         role |-> "assistant",
                         text |-> "(teen) reply issued"]>>]_vars

\* a teen message with a link, an address and a profane word was answered by
\* the model, which saw none of them, and its answer came back sanitized
C9_Witness ==
    /\ last.op = "chat"
    /\ last.mode = "teen"
    /\ last.calls # <<>>
    /\ Contains(last.message, "http://x.co")
    /\ ~Contains(last.calls[1].prompt, "http://x.co")
    /\ Contains(last.calls[1].prompt, "[bleep]")
    /\ Contains(last.calls[1].result, "https://x.co")
    /\ Contains(last.response, "[link removed]")
    /\ Len(last.written) = 2
    /\ last.written[2].text = "(teen) reply issued"

\* C10: an adult-mode chat invokes the model and appends exactly two rows of
\* the user_id to the memory table, a user row and then an assistant row; a
\* recall with limit 1 for an adult that has rows returns exactly one entry,
\* whose role is assistant.
C10_AdultChatAndRecall ==
    [][/\ (last'.op = "chat" /\ last'.mode = "adult") =>
             /\ Len(last'.calls) = 1
             /\ Len(memory_table') = Len(memory_table) + 2
             /\ SubSeq(memory_table', 1, Len(memory_table)) = memory_table
             /\ memory_table'[Len(memory_table) + 1].user_id = last'.user_id
             /\ memory_table'[Len(memory_table) + 1].role = "user"
             /\ memory_table'[Len(memory_table) + 2].user_id = last'.user_id
             /\ memory_table'[Len(memory_table) + 2].role = "assistant"
       /\ (/\ last'.op = "memory"
           /\ last'.limit = <<1>>
           /\ last'.mode = "adult"
           /\ RowsOf(memory_table', last'.user_id) # {}) =>
             /\ Len(last'.items) = 1
             /\ last'.items[1].role = "assistant"]_vars

\* after an adult chat a recall with limit 1 returned the assistant row
C10_Witness ==
    /\ last.op = "memory"
    /\ last.limit = <<1>>
    /\ last.mode = "adult"
    /\ Len(last.items) = 1
    /\ last.items[1].role = "assistant"
    /\ \E i \in IdsOf(last.user_id) :
          /\ i > 1
          /\ memory_table[i].role = "assistant"
          /\ memory_table[i].text = last.items[1].text
          /\ memory_table[i - 1].role = "user"
          /\ memory_table[i - 1].user_id = last.user_id
          /\ ~Contains(memory_table[i - 1].text, "(teen)")

-----------------------------------------------------------------------------
(* Properties of recall limits, of age validation and of model failure.    *)

\* the limit clamped to 1..200
ClampedLimit(limit) ==
    IF limit < 1 THEN 1 ELSE IF limit > 200 THEN 200 ELSE limit

\* C11 as stated: for a teen or an adult, recall with any integer limit
\* returns at most min(max(limit, 1), 200) entries, and they are the newest
\* rows of that user, newest first.
C11_Original ==
    (last.op = "memory" /\ last.status = 200 /\ last.mode # "child") =>
        /\ Len(last.items) <= ClampedLimit(last.limit[1])
        /\ \A k \in 1..Len(last.items) :
              \E i \in IdsOf(last.user_id) :
                 /\ Cardinality({j \in IdsOf(last.user_id) : j > i}) = k - 1
                 /\ last.items[k].role = memory_table[i].role
                 /\ last.items[k].text = memory_table[i].text

\* C12 as stated: an age-verify request with an age below 0 or above 120
\* fails and leaves the users table as it is: no profile is created or
\* marked verified.
C12_Original ==
    [][(/\ last'.op = "age_verify"
        /\ last'.user_id # ""
        /\ (last'.age < 0 \/ last'.age > 120))
          => /\ last'.status # 200
             /\ users' = users]_vars

\* the text pmea_style_reply returns when the call of the model raised
FallbackText(context_shards, error) ==
    Intro(context_shards)
    \o "Answer: I understood your request but could not reach the model just now. "
    \o "Error: " \o error \o ". Ia^*ll give a brief local suggestion: "
    \o "Break your goal into 2a^~3 steps and ask me for the first step in detail."

\* the rows a chat writes are those of mem, role by role and text by text,
\* but for the assistant row of an adult, which holds the reply returned
SameWrites(mem, mode, response) ==
    /\ Len(memory_table') = Len(mem)
    /\ \A i \in 1..Len(mem) :
          /\ memory_table'[i].user_id = mem[i].user_id
          /\ memory_table'[i].role = mem[i].role
          /\ \/ memory_table'[i].text = mem[i].text
             \/ /\ mode = "adult"
                /\ i = Len(mem)
                /\ mem[i].role = "assistant"
                /\ memory_table'[i].text = Slice(response, 1200)

\* C13: in the child, the teen and the adult flow, a chat whose call of the
\* model fails still ends with status 200 and a reply built from the local
\* fallback text (wrapped and cut as the tier wraps a model answer), and it
\* writes the rows it would write after a successful call: none for a child,
\* the same two rows for a teen, and for an adult the user row and an
\* assistant row that holds the reply returned.
C13_ModelFailureFallsBack ==
    [][(/\ last'.op = "chat"
        /\ last'.calls # <<>>
        /\ last'.calls[1].raised)
          => \E call \in {last'.calls[1]} :
                /\ last'.status = 200
                /\ call.result = FallbackText(call.context_shards, call.error)
                /\ last'.response =
                      CASE last'.mode = "child" -> ChildAnswer(call.result)
                        [] last'.mode = "teen" -> teen_sanitize_reply(call.result)
                        [] last'.mode = "adult" -> strip(call.result)
                /\ last'.response # ""
                /\ last'.mode = "child" => memory_table' = memory_table
                /\ \A ok \in {e \in ExtOutcomes : e.ok} :
                      \E good \in {ChatOutcome(users, memory_table, TRUE,
                                               last'.user_id, last'.message,
                                               last'.limit, ok)} :
                         SameWrites(good.memory, last'.mode, last'.response)]_vars

\* the call of the model failed in an adult chat: the caller got the
\* fallback text and both rows were written
C13_Witness ==
    /\ last.op = "chat"
    /\ last.mode = "adult"
    /\ last.calls # <<>>
    /\ last.calls[1].raised
    /\ Contains(last.response, "could not reach the model just now")
    /\ Contains(last.response, "Connection error")
    /\ Len(last.written) = 2
    /\ last.written[1].role = "user"
    /\ last.written[2].role = "assistant"

-----------------------------------------------------------------------------
(* Properties of chat handlers that run side by side.                      *)

\* C14 as stated: when two chat requests for the same teen or adult user_id
\* run at the same time, the user row and the assistant row written by one
\* request are adjacent in the memory table.
C14_Original ==
    [][\A p \in Slots :
          (inflight[p].pc = "save_assistant" /\ inflight'[p].pc = "idle")
             => Len(memory_table') = inflight[p].rows[1] + 1]_vars

\* C15 as stated: when an age-verify and a chat for the same user_id run at
\* the same time, no memory row of that user_id is inserted while the mode
\* stored for that user_id is child.
C15_Original ==
    [][Len(memory_table') > Len(memory_table)
          => \E row \in {memory_table'[Len(memory_table')]} :
                /\ row.user_id \in DOMAIN users
                /\ users[row.user_id].mode # "child"]_vars

\* C16 as stated: the default child profile that chat writes for an unknown
\* user never replaces a profile of that user_id, also when an age-verify
\* wrote that profile between chat's lookup and chat's write.
C16_Original ==
    [][\A p \in Slots :
          (inflight[p].pc = "set_user" /\ inflight'[p].pc # "set_user")
             => \A u \in DOMAIN users : users'[u] = users[u]]_vars

-----------------------------------------------------------------------------
(* Properties of what a request reads and what it may see.                 *)

\* C17 as stated: a chat handled in child mode passes no text of memory rows
\* to the model and returns none, also when rows of that user_id exist from
\* an earlier teen or adult period.
C17_Original ==
    (last.op = "chat" /\ last.mode = "child") =>
        /\ \A c \in 1..Len(last.calls) : last.calls[c].context_shards = <<>>
        /\ \A i \in IdsOf(last.user_id) :
              \E text \in {strip(memory_table[i].text)} :
                 text # "" =>
                    ~Contains(last.response, "\n- " \o Slice(text, 160))

\* the texts of the rows of user_id, stripped and cut as chat cuts them
ShardsOf(mem, user_id) ==
    {Slice(strip(mem[i].text), 160) :
        i \in {j \in 1..Len(mem) : mem[j].user_id = user_id}}

\* C18: conversation memory is private per user: a chat for user A appends
\* only rows keyed by A and changes no other row, a recall writes no row,
\* every context shard passed to the model is the text of a row keyed by A,
\* and every item a recall returns is a row keyed by A.
C18_MemoryPrivatePerUser ==
    [][/\ last'.op = "chat" =>
             /\ Len(memory_table') >= Len(memory_table)
             /\ SubSeq(memory_table', 1, Len(memory_table)) = memory_table
             /\ \A i \in (Len(memory_table) + 1)..Len(memory_table') :
                   memory_table'[i].user_id = last'.user_id
             /\ \A c \in 1..Len(last'.calls) :
                   \A k \in 1..Len(last'.calls[c].context_shards) :
                      last'.calls[c].context_shards[k]
                         \in ShardsOf(memory_table, last'.user_id)
       /\ last'.op = "memory" =>
             /\ memory_table' = memory_table
             /\ \A k \in 1..Len(last'.items) :
                   \E i \in 1..Len(memory_table) :
                      /\ memory_table[i].user_id = last'.user_id
                      /\ memory_table[i].role = last'.items[k].role
                      /\ memory_table[i].text = last'.items[k].text]_vars

\* a recall without a limit returned the one row of its user while the
\* table also holds a row of another user
C18_Witness ==
    /\ last.op = "memory"
    /\ last.limit = <<-1>>
    /\ Len(last.items) = 1
    /\ Len(memory_table) = 2
    /\ \E i \in 1..Len(memory_table) :
          memory_table[i].user_id # last.user_id

\* C19: in every reachable state every row of the users table has a mode
\* among child, teen and adult (never 'blocked'), the mode is the tier of the
\* stored age, and verified is set, for a row written by age-verify and for
\* the default row written by chat.
C19_UsersRowsConsistent ==
    \A u \in DOMAIN users :
        /\ users[u].mode \in {"child", "teen", "adult"}
        /\ users[u].mode # "blocked"
        /\ users[u].mode = IF users[u].age >= 18 THEN "adult"
                           ELSE IF users[u].age >= 13 THEN "teen"
                           ELSE "child"
        /\ users[u].verified = 1
        /\ get_user(users, u)[1].verified = TRUE

\* the table holds a default row written by chat next to a row written by
\* age-verify
C19_Witness ==
    \E u, v \in DOMAIN users :
        /\ users[u] = [age |-> 10, verified |-> 1, mode |-> "child"]
        /\ users[v].age \in {13, 18}
        /\ users[v].verified = 1

\* C20: recall is read-only: it leaves the users table and the memory table
\* unchanged; for an unknown user_id it answers with the error status 404
\* (unknown user_id) and no items and creates no profile, unlike chat; for a
\* known user it answers with status 200.
C20_RecallReadOnly ==
    [][last'.op = "memory" =>
          /\ users' = users
          /\ memory_table' = memory_table
          /\ last'.user_id \notin DOMAIN users =>
                /\ last'.status = 404
                /\ last'.items = <<>>
                /\ last'.user_id \notin DOMAIN users'
          /\ last'.user_id \in DOMAIN users => last'.status = 200]_vars

\* a recall for a user without a profile was refused while another user has
\* a profile and rows
C20_Witness ==
    /\ last.op = "memory"
    /\ last.status = 404
    /\ last.user_id \notin DOMAIN users
    /\ users # <<>>
    /\ Len(memory_table) > 0

=============================================================================
